---- MODULE Spec2Model ----
(***************************************************************************)
(* api_yamdb: the serializers' validation rules, the permission classes    *)
(* and the TitleFilter of api/, as operations over the tables they read    *)
(* (users, categories, genres, titles, reviews).                           *)
(*                                                                         *)
(* Each request handler is one atomic action: it validates the payload as  *)
(* the serializer does, saves when validation passes, and leaves the       *)
(* request and its outcome in resp.  Only SpecRace splits a Review POST    *)
(* into its validation step and its insert step.                           *)
(***************************************************************************)
EXTENDS Integers, Sequences, FiniteSets

VARIABLES
    users,        \* table User: sequence of rows, pk = index
    categories,   \* table Category: sequence of rows, pk = index
    genres,       \* table Genre: sequence of rows, pk = index
    titles,       \* table Title: sequence of rows, pk = index
    reviews,      \* table Review: sequence of rows, pk = index
    now,          \* dt.datetime.now().year
    resp,         \* the last request handled and its outcome
    pc,           \* SpecRace: where each in-flight Review POST stands
    pend,         \* SpecRace: the request each worker is handling
    storeUnique,  \* SpecRace: whether the table itself rejects a duplicate
    raced         \* SpecRace: (title, author) pairs two POSTs validated together

vars == <<users, categories, genres, titles, reviews, now, resp,
          pc, pend, storeUnique, raced>>

----------------------------------------------------------------------------
(* Bounds of the model *)

NumUsers == 2      \* user pks that send requests in SpecPerm
MaxUsers == 2      \* rows of the User table in SpecUsers
MaxCategories == 2 \* rows of the Category table in SpecCategory
MaxTitles == 2     \* rows of the Title table in SpecTitle
MaxCatalogue == 2  \* rows of the Title table in SpecFilter
MaxReviews == 3    \* rows of the Review table in Spec and SpecRace
NumWorkers == 2    \* concurrent request workers in SpecRace
FirstYear == 2024  \* the clock's year at the start of SpecTitle
MaxTicks == 1      \* new years the clock passes in SpecTitle

----------------------------------------------------------------------------
(* Outcomes *)

ValidationError == "ValidationError"
Http404 == "Http404"
AttributeError == "AttributeError"

NoResp == [op |-> "none"]

----------------------------------------------------------------------------
(* Identities and HTTP methods *)

Roles == {"user", "moderator", "admin"}

SAFE_METHODS == {"GET", "HEAD", "OPTIONS"}

Methods == SAFE_METHODS \cup {"POST", "PUT", "PATCH", "DELETE"}

\* django.contrib.auth AnonymousUser: is_authenticated and is_superuser are
\* False, and it has no is_admin / is_moderator attribute.
AnonymousUser ==
    [pk |-> 0, is_authenticated |-> FALSE, role |-> "none", is_superuser |-> FALSE]

Identity(pk, role, su) ==
    [pk |-> pk, is_authenticated |-> TRUE, role |-> role, is_superuser |-> su]

Requesters ==
    {AnonymousUser} \cup
    {Identity(pk, r, su) : pk \in 1..NumUsers, r \in Roles, su \in BOOLEAN}

is_admin(user) == user.role = "admin"

is_moderator(user) == user.role = "moderator"

Request(method, user) == [method |-> method, user |-> user]

----------------------------------------------------------------------------
(* api/v1/permissions.py *)

AdministratorEdit_has_permission(request) ==
    request.user.is_authenticated
    /\ (is_admin(request.user) \/ request.user.is_superuser)

\* Mutant: the admin check forgotten, any authenticated requester may write.
IsAdminOrReadOnly_any_authenticated(request) ==
    \/ request.method \in SAFE_METHODS
    \/ request.user.is_authenticated

IsAdminOrReadOnly_has_permission(request) ==
    \/ request.method \in SAFE_METHODS
    \/ (request.user.is_authenticated
        /\ (is_admin(request.user) \/ request.user.is_superuser))

IsAdminOrModeratirOrAuthor_has_permission(request) ==
    \/ request.method \in SAFE_METHODS
    \/ request.user.is_authenticated

\* Mutant: the author comparison dropped from the chain.
IsAdminOrModeratirOrAuthor_no_author(request, obj) ==
    IF request.method \in SAFE_METHODS THEN "True"
    ELSE IF request.user.is_superuser THEN "True"
    ELSE IF ~request.user.is_authenticated THEN AttributeError
    ELSE IF is_admin(request.user) \/ is_moderator(request.user)
         THEN "True" ELSE "False"

\* The chain of `or` is evaluated left to right; reading is_admin of an
\* AnonymousUser raises AttributeError.  Outcome: "True", "False" or
\* AttributeError.
IsAdminOrModeratirOrAuthor_has_object_permission(request, obj) ==
    IF request.method \in SAFE_METHODS THEN "True"
    ELSE IF request.user.is_superuser THEN "True"
    ELSE IF ~request.user.is_authenticated THEN AttributeError
    ELSE IF \/ is_admin(request.user)
            \/ is_moderator(request.user)
            \/ request.user.pk = obj.author
         THEN "True" ELSE "False"

\* A detail request: has_permission first, has_object_permission only when
\* it granted.
IsAdminOrModeratirOrAuthor_object_access(request, obj) ==
    IF ~IsAdminOrModeratirOrAuthor_has_permission(request) THEN "False"
    ELSE IsAdminOrModeratirOrAuthor_has_object_permission(request, obj)

CheckAdministratorEdit ==
    /\ \E m \in Methods, u \in Requesters :
         resp' = [op |-> "AdministratorEdit", request |-> Request(m, u),
                  result |-> AdministratorEdit_has_permission(Request(m, u))]
    /\ UNCHANGED <<users, categories, genres, titles, reviews, now,
                   pc, pend, storeUnique, raced>>

CheckIsAdminOrReadOnly ==
    /\ \E m \in Methods, u \in Requesters :
         resp' = [op |-> "IsAdminOrReadOnly", request |-> Request(m, u),
                  result |-> IsAdminOrReadOnly_has_permission(Request(m, u))]
    /\ UNCHANGED <<users, categories, genres, titles, reviews, now,
                   pc, pend, storeUnique, raced>>

CheckObjectAccess ==
    /\ \E m \in Methods, u \in Requesters, a \in 1..NumUsers :
         resp' = [op |-> "IsAdminOrModeratirOrAuthor",
                  request |-> Request(m, u), obj |-> [author |-> a],
                  result |-> IsAdminOrModeratirOrAuthor_object_access(
                                 Request(m, u), [author |-> a])]
    /\ UNCHANGED <<users, categories, genres, titles, reviews, now,
                   pc, pend, storeUnique, raced>>

----------------------------------------------------------------------------
(* api/serializers.py: the User serializers *)

Raise(e) == [raised |-> e]

Return(v) == [returned |-> v]

Usernames == {"me", "bob", "amy"}

Emails == {"bob@x", "amy@x"}

Texts == {"", "t"}

UserFields == {"username", "email", "first_name", "last_name", "bio", "role"}

\* Payloads of a user edit: some subsets of the fields, filled from two
\* sample bodies.
UserFieldSets ==
    {{}, UserFields, {"role"}, {"username"}, {"email"}, {"bio", "role"},
     {"first_name", "last_name", "bio"}}

UserBodies ==
    {[username |-> "bob", email |-> "bob@x", first_name |-> "t",
      last_name |-> "t", bio |-> "t", role |-> "admin"],
     [username |-> "amy", email |-> "amy@x", first_name |-> "",
      last_name |-> "", bio |-> "", role |-> "moderator"]}

Restrict(f, S) == [x \in S \cap DOMAIN f |-> f[x]]

UserPayloads == {Restrict(b, S) : b \in UserBodies, S \in UserFieldSets}

\* User.objects.filter(<field>=value), truthy when a row matches.
UserExists(table, field, value) ==
    \E i \in DOMAIN table : table[i][field] = value

\* Mutant: the email lookup forgotten.
CreateUserSerializer_validate_no_email(data, table) ==
    IF data.username = "me" THEN Raise(ValidationError)
    ELSE IF UserExists(table, "username", data.username)
         THEN Raise(ValidationError)
    ELSE Return(data)

CreateUserSerializer_validate(data, table) ==
    IF data.username = "me" THEN Raise(ValidationError)
    ELSE IF UserExists(table, "username", data.username)
         THEN Raise(ValidationError)
    ELSE IF UserExists(table, "email", data.email)
         THEN Raise(ValidationError)
    ELSE Return(data)

\* The row a registration saves: role and the text fields take the model's
\* defaults.
NewUser(data) ==
    [username |-> data.username, email |-> data.email, first_name |-> "",
     last_name |-> "", bio |-> "", role |-> "user"]

\* The unique username and email of the User model, as the serializer's
\* field validators see them on an update of row pk.
UniqueAmongOthers(table, pk, data) ==
    \A f \in {"username", "email"} \cap DOMAIN data :
        \A i \in DOMAIN table : i # pk => table[i][f] # data[f]

\* ModelSerializer: read-only fields of the input are dropped, the others
\* are set on the instance.
ValidatedData(payload, fields, read_only_fields) ==
    Restrict(payload, fields \ read_only_fields)

UpdateRow(row, data) ==
    [f \in DOMAIN row |-> IF f \in DOMAIN data THEN data[f] ELSE row[f]]

UserSerialiser_fields == UserFields

UserSerialiser_read_only_fields == {}

SelfEditSerializer_fields == UserFields

\* Mutant: read_only_fields left out of Meta.
SelfEditSerializer_nothing_read_only == {}

SelfEditSerializer_read_only_fields == {"role"}

CreateUser ==
    /\ Len(users) < MaxUsers
    /\ \E data \in [username : Usernames, email : Emails] :
         LET r == CreateUserSerializer_validate(data, users)
         IN  /\ resp' = [op |-> "create_user", data |-> data, result |-> r]
             /\ users' = IF "returned" \in DOMAIN r
                          THEN Append(users, NewUser(r.returned))
                          ELSE users
    /\ UNCHANGED <<categories, genres, titles, reviews, now,
                   pc, pend, storeUnique, raced>>

SelfEdit ==
    /\ \E pk \in DOMAIN users, payload \in UserPayloads :
         LET data == ValidatedData(payload, SelfEditSerializer_fields,
                                   SelfEditSerializer_read_only_fields)
             ok == UniqueAmongOthers(users, pk, data)
         IN  /\ resp' = [op |-> "self_edit", pk |-> pk, data |-> payload,
                          result |-> IF ok THEN Return(data)
                                     ELSE Raise(ValidationError)]
             /\ users' = IF ok
                          THEN [users EXCEPT ![pk] = UpdateRow(@, data)]
                          ELSE users
    /\ UNCHANGED <<categories, genres, titles, reviews, now,
                   pc, pend, storeUnique, raced>>

AdminEdit ==
    /\ \E pk \in DOMAIN users, payload \in UserPayloads :
         LET data == ValidatedData(payload, UserSerialiser_fields,
                                   UserSerialiser_read_only_fields)
             ok == UniqueAmongOthers(users, pk, data)
         IN  /\ resp' = [op |-> "admin_edit", pk |-> pk, data |-> payload,
                          result |-> IF ok THEN Return(data)
                                     ELSE Raise(ValidationError)]
             /\ users' = IF ok
                          THEN [users EXCEPT ![pk] = UpdateRow(@, data)]
                          ELSE users
    /\ UNCHANGED <<categories, genres, titles, reviews, now,
                   pc, pend, storeUnique, raced>>

----------------------------------------------------------------------------
(* api/serializers.py: CategorySerializer *)

CategoryNames == {"Films", "Books"}

Slugs == {"movie", "book", "song"}

CategoryBodies == [name : CategoryNames, slug : Slugs \cup {""}]

CategoryPayloads ==
    {Restrict(b, S) : b \in CategoryBodies,
                      S \in {{"name"}, {"slug"}, {"name", "slug"}}}

\* slug = SlugField(max_length=50, min_length=None, allow_blank=False)
SlugField_run_validation(value) ==
    IF value = "" THEN Raise(ValidationError) ELSE Return(value)

\* Mutant: the lookup compares the name column.
CategorySerializer_validate_slug_by_name(value, table) ==
    IF \E i \in DOMAIN table : table[i].name = value
    THEN Raise(ValidationError)
    ELSE Return(value)

\* Category.objects.filter(slug=value).exists()
CategorySerializer_validate_slug(value, table) ==
    IF \E i \in DOMAIN table : table[i].slug = value
    THEN Raise(ValidationError)
    ELSE Return(value)

\* Field validation of a Category payload: slug, when supplied, passes the
\* SlugField and then validate_slug.
CategorySerializer_run_validation(data, table) ==
    IF "slug" \notin DOMAIN data THEN Return(data)
    ELSE IF "raised" \in DOMAIN SlugField_run_validation(data.slug)
         THEN Raise(ValidationError)
    ELSE IF "raised" \in DOMAIN CategorySerializer_validate_slug(data.slug, table)
         THEN Raise(ValidationError)
    ELSE Return(data)

CategoryCreate ==
    /\ Len(categories) < MaxCategories
    /\ \E data \in CategoryBodies :
         LET r == CategorySerializer_run_validation(data, categories)
         IN  /\ resp' = [op |-> "category_create", data |-> data, result |-> r]
             /\ categories' = IF "returned" \in DOMAIN r
                               THEN Append(categories, r.returned)
                               ELSE categories
    /\ UNCHANGED <<users, genres, titles, reviews, now,
                   pc, pend, storeUnique, raced>>

CategoryUpdate ==
    /\ \E pk \in DOMAIN categories, data \in CategoryPayloads :
         LET r == CategorySerializer_run_validation(data, categories)
         IN  /\ resp' = [op |-> "category_update", pk |-> pk, data |-> data,
                          result |-> r]
             /\ categories' =
                    IF "returned" \in DOMAIN r
                    THEN [categories EXCEPT ![pk] = UpdateRow(@, r.returned)]
                    ELSE categories
    /\ UNCHANGED <<users, genres, titles, reviews, now,
                   pc, pend, storeUnique, raced>>

----------------------------------------------------------------------------
(* api/serializers.py: TitleWriteSerializer *)

\* The Category and Genre rows the Title requests resolve slugs against.
SeedCategories ==
    <<[name |-> "Films", slug |-> "movie"], [name |-> "Books", slug |-> "book"]>>

SeedGenres ==
    <<[name |-> "Drama", slug |-> "drama"], [name |-> "Comedy", slug |-> "comedy"]>>

\* Names are sequences of characters.
TitleNames == {<<"A", "b">>, <<"b">>}

Years == {-1} \cup ((FirstYear - 1) .. (FirstYear + MaxTicks + 1))

TitleBodies ==
    [name : TitleNames, year : Years, category : {"movie", "nope"},
     genre : {<<"drama">>, <<"drama", "comedy">>, <<"nope">>}]

\* SlugRelatedField(slug_field='slug', queryset=...): the pk of the row with
\* that slug, or ValidationError when there is none.
SlugRelatedField(slug, table) ==
    IF \E i \in DOMAIN table : table[i].slug = slug
    THEN Return(CHOOSE i \in DOMAIN table : table[i].slug = slug)
    ELSE Raise(ValidationError)

\* Mutant: the comparison is >=, the current year is refused.
TitleWriteSerializer_validate_year_ge(value, year_now) ==
    IF value >= year_now THEN Raise(ValidationError) ELSE Return(value)

TitleWriteSerializer_validate_year(value, year_now) ==
    IF value > year_now THEN Raise(ValidationError) ELSE Return(value)

\* The fields of the payload that fail: every field is validated, the
\* errors are collected.
TitleWriteSerializer_errors(data, year_now, cats, gens) ==
    {f \in {"genre", "category", "year"} :
        \/ f = "genre" /\ \E k \in DOMAIN data.genre :
               "raised" \in DOMAIN SlugRelatedField(data.genre[k], gens)
        \/ f = "category" /\
               "raised" \in DOMAIN SlugRelatedField(data.category, cats)
        \/ f = "year" /\
               "raised" \in DOMAIN
                   TitleWriteSerializer_validate_year(data.year, year_now)}

\* The row saved for a valid payload.
NewTitle(data, cats, gens) ==
    [name |-> data.name, year |-> data.year,
     category |-> SlugRelatedField(data.category, cats).returned,
     genre |-> {SlugRelatedField(data.genre[k], gens).returned :
                   k \in DOMAIN data.genre}]

TitleCreate ==
    /\ Len(titles) < MaxTitles
    /\ \E data \in TitleBodies :
         LET errors == TitleWriteSerializer_errors(data, now, categories, genres)
         IN  /\ resp' = [op |-> "title_create", data |-> data,
                          errors |-> errors,
                          result |-> IF errors = {} THEN Return(data)
                                     ELSE Raise(ValidationError)]
             /\ titles' = IF errors = {}
                           THEN Append(titles, NewTitle(data, categories, genres))
                           ELSE titles
    /\ UNCHANGED <<users, categories, genres, reviews, now,
                   pc, pend, storeUnique, raced>>

\* The calendar year passes.
NewYear ==
    /\ now < FirstYear + MaxTicks
    /\ now' = now + 1
    /\ resp' = [op |-> "new_year"]
    /\ UNCHANGED <<users, categories, genres, titles, reviews,
                   pc, pend, storeUnique, raced>>

----------------------------------------------------------------------------
(* api/filters.py: TitleFilter.  Meta.fields = '__all__' generates filters *)
(* for the model's fields; the four declared ones replace the generated   *)
(* filters of the same names.                                             *)

Lower(c) == CASE c = "A" -> "a" [] c = "B" -> "b" [] OTHER -> c

\* lookup_expr='icontains'
IContains(hay, needle) ==
    \E i \in 0 .. (Len(hay) - Len(needle)) :
        \A j \in 1 .. Len(needle) : Lower(hay[i + j]) = Lower(needle[j])

\* The Title rows a catalogue is built from; category 0 is NULL.
CatalogueRows ==
    {[name |-> <<"A", "b">>, year |-> FirstYear - 1, category |-> 1, genre |-> {1}],
     [name |-> <<"b">>, year |-> FirstYear, category |-> 1, genre |-> {2}],
     [name |-> <<"A", "b">>, year |-> FirstYear, category |-> 2, genre |-> {1, 2}],
     [name |-> <<"b">>, year |-> FirstYear - 1, category |-> 0, genre |-> {}]}

Catalogues ==
    UNION {[1..n -> CatalogueRows] : n \in 0..MaxCatalogue}

FilterBodies ==
    [category : {"movie", "book", "nope"}, genre : {"drama", "comedy"},
     name : {<<"a">>, <<"B">>}, year : {FirstYear - 1, FirstYear}]

FilterParams ==
    {Restrict(b, S) : b \in FilterBodies,
                      S \in SUBSET {"category", "genre", "name", "year"}}

\* category = CharFilter(field_name='category__slug')
Filter_category(row, value, cats) ==
    row.category \in DOMAIN cats /\ cats[row.category].slug = value

\* Mutant: every genre of the Title must carry the slug.
Filter_genre_all(row, value, gens) ==
    \A g \in row.genre : g \in DOMAIN gens /\ gens[g].slug = value

\* genre = CharFilter(field_name='genre__slug')
Filter_genre(row, value, gens) ==
    \E g \in row.genre : g \in DOMAIN gens /\ gens[g].slug = value

\* name = CharFilter(field_name='name', lookup_expr='icontains')
Filter_name(row, value) == IContains(row.name, value)

\* year = NumberFilter(field_name='year')
Filter_year(row, value) == row.year = value

\* The queryset after each supplied parameter's filter, as the pks kept.
TitleFilter_qs(params, table, cats, gens) ==
    LET q0 == DOMAIN table
        q1 == IF "category" \in DOMAIN params
              THEN {pk \in q0 : Filter_category(table[pk], params.category, cats)}
              ELSE q0
        q2 == IF "genre" \in DOMAIN params
              THEN {pk \in q1 : Filter_genre(table[pk], params.genre, gens)}
              ELSE q1
        q3 == IF "name" \in DOMAIN params
              THEN {pk \in q2 : Filter_name(table[pk], params.name)}
              ELSE q2
        q4 == IF "year" \in DOMAIN params
              THEN {pk \in q3 : Filter_year(table[pk], params.year)}
              ELSE q3
    IN  q4

TitleList ==
    /\ \E params \in FilterParams :
         resp' = [op |-> "title_list", params |-> params,
                  result |-> TitleFilter_qs(params, titles, categories, genres)]
    /\ UNCHANGED <<users, categories, genres, titles, reviews, now,
                   pc, pend, storeUnique, raced>>

----------------------------------------------------------------------------
(* api/serializers.py: ReviewSerializer *)

\* The Title rows the Review requests are about.
SeedTitles ==
    <<[name |-> <<"A", "b">>, year |-> FirstYear - 1, category |-> 1, genre |-> {1}],
      [name |-> <<"b">>, year |-> FirstYear, category |-> 2, genre |-> {2}]>>

\* request.user of a Review request, by pk.
ReviewAuthors == {1, 2}

\* title_id of the URL; the last one is no Title.
TitleIds == {1, 2, 3}

Scores == {-1, 0, 10, 11}

ReviewBodies == [score : Scores, text : {"t"}]

\* `0 > value > 10` is Python's chained comparison: 0 > value and value > 10.
ReviewSerializer_validate_score(value) ==
    IF 0 > value /\ value > 10 THEN Raise(ValidationError) ELSE Return(value)

\* Review.objects.filter(title=title, author=author).exists()
ReviewExists(table, title, author) ==
    \E i \in DOMAIN table : table[i].title = title /\ table[i].author = author

\* Mutant: the lookup filters by title alone.
ReviewSerializer_validate_title_only(data, method, author, title_id, ttable, rtable) ==
    IF title_id \notin DOMAIN ttable THEN Raise(Http404)
    ELSE IF method = "POST" /\ \E i \in DOMAIN rtable : rtable[i].title = title_id
         THEN Raise(ValidationError)
    ELSE Return(data)

\* Mutant: the method compared is PUT, so no POST is ever checked.
ReviewSerializer_validate_put(data, method, author, title_id, ttable, rtable) ==
    IF title_id \notin DOMAIN ttable THEN Raise(Http404)
    ELSE IF method = "PUT" /\ ReviewExists(rtable, title_id, author)
         THEN Raise(ValidationError)
    ELSE Return(data)

ReviewSerializer_validate(data, method, author, title_id, ttable, rtable) ==
    IF title_id \notin DOMAIN ttable THEN Raise(Http404)
    ELSE IF method = "POST" /\ ReviewExists(rtable, title_id, author)
         THEN Raise(ValidationError)
    ELSE Return(data)

\* Field validation, then validate().
ReviewSerializer_run_validation(data, method, author, title_id, ttable, rtable) ==
    IF "raised" \in DOMAIN ReviewSerializer_validate_score(data.score)
    THEN Raise(ValidationError)
    ELSE ReviewSerializer_validate(data, method, author, title_id, ttable, rtable)

\* The row saved: title and author are read-only in the payload and come
\* from the URL and the requester.
NewReview(data, author, title_id) ==
    [title |-> title_id, author |-> author, score |-> data.score,
     text |-> data.text]

ReviewCreate ==
    /\ Len(reviews) < MaxReviews
    /\ \E u \in ReviewAuthors, t \in TitleIds, data \in ReviewBodies :
         LET r == ReviewSerializer_run_validation(data, "POST", u, t,
                                                  titles, reviews)
         IN  /\ resp' = [op |-> "review_create", method |-> "POST",
                          user |-> u, title_id |-> t, data |-> data,
                          score |-> ReviewSerializer_validate_score(data.score),
                          result |-> r]
             /\ reviews' = IF "returned" \in DOMAIN r
                            THEN Append(reviews, NewReview(r.returned, u, t))
                            ELSE reviews
    /\ UNCHANGED <<users, categories, genres, titles, now,
                   pc, pend, storeUnique, raced>>

ReviewUpdate ==
    /\ \E pk \in DOMAIN reviews, data \in ReviewBodies :
         LET t == reviews[pk].title
             u == reviews[pk].author
             r == ReviewSerializer_run_validation(data, "PATCH", u, t,
                                                  titles, reviews)
         IN  /\ resp' = [op |-> "review_update", method |-> "PATCH",
                          user |-> u, title_id |-> t, data |-> data,
                          score |-> ReviewSerializer_validate_score(data.score),
                          result |-> r]
             /\ reviews' = IF "returned" \in DOMAIN r
                            THEN [reviews EXCEPT ![pk] = UpdateRow(@, r.returned)]
                            ELSE reviews
    /\ UNCHANGED <<users, categories, genres, titles, now,
                   pc, pend, storeUnique, raced>>

----------------------------------------------------------------------------
(* A Review POST as two steps: ReviewSerializer.validate, then the insert *)

IntegrityError == "IntegrityError"

RaceBodies == [score : {10}, text : {"t"}]

\* The table's insert: with a unique (title, author) constraint a duplicate
\* row is refused, without one every row is appended.
ReviewInsert(table, row, unique) ==
    IF unique /\ ReviewExists(table, row.title, row.author)
    THEN Raise(IntegrityError)
    ELSE Return(Append(table, row))

Validated == {w \in 1..NumWorkers : pc[w] = "validated"}

\* Worker w takes a POST and runs the serializer's validation on it.
RaceValidate(w) ==
    /\ pc[w] = "idle"
    /\ Len(reviews) + Cardinality(Validated) < MaxReviews
    /\ \E u \in ReviewAuthors, t \in TitleIds, data \in RaceBodies :
         LET r == ReviewSerializer_run_validation(data, "POST", u, t,
                                                  titles, reviews)
             together == \E v \in Validated :
                             pend[v].user = u /\ pend[v].title_id = t
         IN  IF "returned" \in DOMAIN r
             THEN /\ pc' = [pc EXCEPT ![w] = "validated"]
                  /\ pend' = [pend EXCEPT ![w] =
                                 [op |-> "review_create", user |-> u,
                                  title_id |-> t, data |-> r.returned]]
                  /\ raced' = IF together THEN raced \cup {<<t, u>>} ELSE raced
                  /\ resp' = [op |-> "review_validate", worker |-> w,
                               result |-> r]
             ELSE /\ resp' = [op |-> "review_validate", worker |-> w,
                               result |-> r]
                  /\ UNCHANGED <<pc, pend, raced>>
    /\ UNCHANGED <<users, categories, genres, titles, reviews, now, storeUnique>>

\* Worker w saves the Review it validated.
RaceInsert(w) ==
    /\ pc[w] = "validated"
    /\ LET r == ReviewInsert(reviews,
                              NewReview(pend[w].data, pend[w].user,
                                        pend[w].title_id),
                              storeUnique)
       IN  /\ reviews' = IF "returned" \in DOMAIN r THEN r.returned ELSE reviews
           /\ resp' = [op |-> "review_insert", worker |-> w,
                        result |-> IF "returned" \in DOMAIN r
                                   THEN Return(pend[w].data) ELSE r]
    /\ pc' = [pc EXCEPT ![w] = "idle"]
    /\ pend' = [pend EXCEPT ![w] = NoResp]
    /\ UNCHANGED <<users, categories, genres, titles, now, storeUnique, raced>>

----------------------------------------------------------------------------
(* Claims about the permission classes, under SpecPerm *)

PlainOrModerator(u) ==
    u.is_authenticated /\ u.role \in {"user", "moderator"} /\ ~u.is_superuser

\* C3: IsAdminOrReadOnly.has_permission grants GET, HEAD and OPTIONS to every
\* requester, anonymous included; any other method is granted iff the
\* requester is authenticated and is admin or superuser, so an authenticated
\* plain user or moderator is denied every non-safe method.
C3_IsAdminOrReadOnly ==
    resp.op = "IsAdminOrReadOnly" =>
        LET m == resp.request.method
            u == resp.request.user
        IN  /\ m \in {"GET", "HEAD", "OPTIONS"} => resp.result = TRUE
            /\ m \notin {"GET", "HEAD", "OPTIONS"} =>
                  (resp.result = TRUE <=>
                     (u.is_authenticated
                      /\ (u.role = "admin" \/ u.is_superuser)))
            /\ (m \notin {"GET", "HEAD", "OPTIONS"} /\ PlainOrModerator(u))
                  => resp.result = FALSE

C3_Witness ==
    /\ resp.op = "IsAdminOrReadOnly"
    /\ resp.request.method = "DELETE"
    /\ resp.request.user.role = "moderator"
    /\ ~resp.request.user.is_superuser
    /\ resp.result = FALSE

\* C4: with has_permission applied before has_object_permission, a non-safe
\* request on a Review or Comment is granted iff the requester is
\* authenticated and is superuser, admin, moderator or the object's author;
\* a safe request is granted to anyone, anonymous included; an authenticated
\* plain user who is not the author is denied every non-safe method.
C4_ObjectAccess ==
    resp.op = "IsAdminOrModeratirOrAuthor" =>
        LET m == resp.request.method
            u == resp.request.user
            a == resp.obj.author
        IN  /\ m \in {"GET", "HEAD", "OPTIONS"} => resp.result = "True"
            /\ m \notin {"GET", "HEAD", "OPTIONS"} =>
                  /\ resp.result \in {"True", "False"}
                  /\ resp.result = "True" <=>
                       (u.is_authenticated
                        /\ (\/ u.is_superuser
                            \/ u.role = "admin"
                            \/ u.role = "moderator"
                            \/ u.pk = a))
            /\ (/\ m \notin {"GET", "HEAD", "OPTIONS"}
                /\ u.is_authenticated /\ u.role = "user"
                /\ ~u.is_superuser /\ u.pk # a)
                  => resp.result = "False"

C4_Witness ==
    /\ resp.op = "IsAdminOrModeratirOrAuthor"
    /\ resp.request.method = "PATCH"
    /\ resp.request.user.is_authenticated
    /\ resp.request.user.role = "user"
    /\ ~resp.request.user.is_superuser
    /\ resp.request.user.pk = resp.obj.author
    /\ resp.result = "True"

----------------------------------------------------------------------------
(* Claims about the User serializers, under SpecUsers *)

\* C2: CreateUserSerializer.validate raises ValidationError whenever the
\* username is "me", or a User with that username exists, or a User with
\* that email exists; otherwise it succeeds and returns the data unchanged.
C2_CreateUserValidate ==
    [][resp'.op = "create_user" =>
         LET d == resp'.data
             taken ==
                 \/ d.username = "me"
                 \/ \E i \in DOMAIN users : users[i].username = d.username
                 \/ \E i \in DOMAIN users : users[i].email = d.email
         IN  /\ taken => resp'.result = [raised |-> "ValidationError"]
             /\ ~taken => resp'.result = [returned |-> d]]_vars

\* A fresh username is refused because its email is taken.
C2_Witness ==
    /\ resp.op = "create_user"
    /\ resp.data.username # "me"
    /\ \A i \in DOMAIN users : users[i].username # resp.data.username
    /\ \E i \in DOMAIN users : users[i].email = resp.data.email
    /\ resp.result = [raised |-> "ValidationError"]

\* C10: a self-edit write through SelfEditSerializer leaves every stored
\* role as it was, whatever role the payload carries, while the other
\* fields may change.
C10_SelfEditKeepsRole ==
    [][resp'.op = "self_edit" =>
         /\ DOMAIN users' = DOMAIN users
         /\ \A pk \in DOMAIN users : users'[pk].role = users[pk].role]_vars

\* A self-edit that carried another role went through and changed bio.
C10_Witness ==
    /\ resp.op = "self_edit"
    /\ "returned" \in DOMAIN resp.result
    /\ {"role", "bio"} \subseteq DOMAIN resp.data
    /\ resp.data.role = "admin"
    /\ users[resp.pk].role = "user"
    /\ resp.data.bio = "t"
    /\ users[resp.pk].bio = "t"

----------------------------------------------------------------------------
(* Claims about CategorySerializer, under SpecCategory *)

\* C7: on every Category write that submits a (non-blank) slug, create and
\* update alike, validation fails with ValidationError iff a Category with
\* that slug is already stored; the record being updated is not excluded, so
\* an update that submits the record's own unchanged slug is rejected.
C7_ValidateSlug ==
    [][(/\ resp'.op \in {"category_create", "category_update"}
        /\ "slug" \in DOMAIN resp'.data
        /\ resp'.data.slug # "") =>
         LET used == \E i \in DOMAIN categories :
                         categories[i].slug = resp'.data.slug
         IN  /\ used => resp'.result = [raised |-> "ValidationError"]
             /\ ~used => resp'.result = [returned |-> resp'.data]
             /\ (resp'.op = "category_update"
                 /\ categories[resp'.pk].slug = resp'.data.slug)
                   => (resp'.result = [raised |-> "ValidationError"]
                       /\ categories' = categories)]_vars

\* An update that sent the record's own slug, with a new name, was refused.
C7_Witness ==
    /\ resp.op = "category_update"
    /\ {"name", "slug"} \subseteq DOMAIN resp.data
    /\ categories[resp.pk].slug = resp.data.slug
    /\ categories[resp.pk].name # resp.data.name
    /\ resp.result = [raised |-> "ValidationError"]

----------------------------------------------------------------------------
(* Claims about TitleWriteSerializer and TitleFilter *)

\* C6: validate_year fails with ValidationError iff the submitted year is
\* strictly greater than the current calendar year; every year up to and
\* including the current one, however small, is accepted and stored as sent.
C6_ValidateYear ==
    [][resp'.op = "title_create" =>
         LET y == resp'.data.year
         IN  /\ ("year" \in resp'.errors) <=> (y > now)
             /\ y > now => resp'.result = [raised |-> "ValidationError"]
             /\ (y <= now /\ resp'.errors = {}) =>
                   (/\ Len(titles') = Len(titles) + 1
                    /\ titles'[Len(titles')].year = y)]_vars

\* A Title dated the current year was accepted and stored.
C6_Witness ==
    /\ resp.op = "title_create"
    /\ resp.data.year = now
    /\ "returned" \in DOMAIN resp.result
    /\ titles # <<>>
    /\ titles[Len(titles)].year = now

\* Whether one Title satisfies every supplied parameter.
C8_Matches(pk, params) ==
    LET row == titles[pk]
    IN  /\ "category" \in DOMAIN params =>
              (row.category # 0
               /\ categories[row.category].slug = params.category)
        /\ "genre" \in DOMAIN params =>
              (\E g \in row.genre : genres[g].slug = params.genre)
        /\ "name" \in DOMAIN params =>
              (\E pre, post \in UNION {[1..n -> {"A", "a", "B", "b"}] : n \in 0..2} :
                   \E mid \in [1..Len(params.name) -> {"A", "a", "B", "b"}] :
                       /\ row.name = pre \o mid \o post
                       /\ \A j \in 1..Len(mid) :
                              {mid[j], params.name[j]} \in
                                  {{"A"}, {"a"}, {"A", "a"}, {"B"}, {"b"}, {"B", "b"}})
        /\ "year" \in DOMAIN params => row.year = params.year

\* C8: TitleFilter selects exactly the Titles that satisfy every supplied
\* parameter: category is the Title's category slug, genre is the slug of at
\* least one of its genres, name is a case-insensitive substring of its
\* name, year is its year; an omitted parameter constrains nothing, so with
\* no parameter every Title is selected.
C8_TitleFilter ==
    resp.op = "title_list" =>
        /\ resp.result = {pk \in DOMAIN titles : C8_Matches(pk, resp.params)}
        /\ DOMAIN resp.params = {} => resp.result = DOMAIN titles

\* category=movie and year select exactly the one of two movies of that
\* year.
C8_Witness ==
    /\ resp.op = "title_list"
    /\ DOMAIN resp.params = {"category", "year"}
    /\ resp.params.category = "movie"
    /\ Len(titles) = 2
    /\ titles[1].category = 1 /\ titles[2].category = 1
    /\ titles[1].year = resp.params.year
    /\ titles[2].year # resp.params.year
    /\ resp.result = {1}

----------------------------------------------------------------------------
(* Claims about ReviewSerializer, under Spec *)

ReviewsOf(table, t, a) ==
    {i \in DOMAIN table : table[i].title = t /\ table[i].author = a}

AtMostOneReviewPerPair(table) ==
    \A t \in TitleIds, a \in ReviewAuthors :
        Cardinality(ReviewsOf(table, t, a)) <= 1

\* C1: when Review POSTs are handled one after another, each saved only
\* when validation passes, the table holds at most one Review per (title,
\* author): a POST by an author who has a Review for the Title fails with
\* ValidationError, a POST for another author or another Title passes and
\* is saved.
C1_OneReviewPerPair ==
    [][/\ AtMostOneReviewPerPair(reviews')
       /\ (resp'.op = "review_create" /\ resp'.title_id \in DOMAIN titles) =>
            LET had == ReviewsOf(reviews, resp'.title_id, resp'.user) # {}
            IN  /\ had => (resp'.result = [raised |-> "ValidationError"]
                           /\ reviews' = reviews)
                /\ ~had => (/\ resp'.result = [returned |-> resp'.data]
                            /\ Len(reviews') = Len(reviews) + 1
                            /\ reviews'[Len(reviews')].title = resp'.title_id
                            /\ reviews'[Len(reviews')].author = resp'.user)]_vars

\* A second POST by the same author for the same Title was refused while
\* another author's Review of that Title is stored.
C1_Witness ==
    /\ resp.op = "review_create"
    /\ resp.result = [raised |-> "ValidationError"]
    /\ ReviewsOf(reviews, resp.title_id, resp.user) # {}
    /\ \E i \in DOMAIN reviews :
          reviews[i].title = resp.title_id /\ reviews[i].author # resp.user

\* C5: validate_score rejects every score below 0 or above 10 with
\* ValidationError and returns every score from 0 to 10 unchanged.
C5_ValidateScore ==
    resp.op \in {"review_create", "review_update"} =>
        LET v == resp.data.score
        IN  /\ (v < 0 \/ v > 10) => resp.score = [raised |-> "ValidationError"]
            /\ (0 <= v /\ v <= 10) => resp.score = [returned |-> v]

----------------------------------------------------------------------------
(* Claim about concurrent Review POSTs, under SpecRace *)

\* C9: the uniqueness pre-check is check-then-act.  When validation and
\* insert are separate steps, two Reviews of one (title, author) pair are
\* stored only when the table enforces no uniqueness and two POSTs for that
\* pair had both passed validate before either was saved; with a table that
\* refuses the duplicate insert the pair stays unique.
C9_DuplicateOnlyByRace ==
    \A t \in TitleIds, a \in ReviewAuthors :
        Cardinality(ReviewsOf(reviews, t, a)) >= 2 =>
            (~storeUnique /\ <<t, a>> \in raced)

\* Two POSTs of one author for one Title both passed validate and both
\* rows are stored.
C9_Witness ==
    /\ ~storeUnique
    /\ \E t \in TitleIds, a \in ReviewAuthors :
          /\ Cardinality(ReviewsOf(reviews, t, a)) = 2
          /\ <<t, a>> \in raced

----------------------------------------------------------------------------
Init ==
    /\ users = <<>>
    /\ categories = <<>>
    /\ genres = <<>>
    /\ titles = <<>>
    /\ reviews = <<>>
    /\ now = FirstYear
    /\ resp = NoResp
    /\ pc = [w \in 1..NumWorkers |-> "idle"]
    /\ pend = [w \in 1..NumWorkers |-> NoResp]
    /\ storeUnique = FALSE
    /\ raced = {}

NextPerm ==
    \/ CheckAdministratorEdit
    \/ CheckIsAdminOrReadOnly
    \/ CheckObjectAccess

SpecPerm == Init /\ [][NextPerm]_vars

NextUsers ==
    \/ CreateUser
    \/ SelfEdit
    \/ AdminEdit

SpecUsers == Init /\ [][NextUsers]_vars

NextCategory ==
    \/ CategoryCreate
    \/ CategoryUpdate

SpecCategory == Init /\ [][NextCategory]_vars

\* The Title requests start from a store that holds categories and genres.
InitTitle ==
    /\ users = <<>>
    /\ categories = SeedCategories
    /\ genres = SeedGenres
    /\ titles = <<>>
    /\ reviews = <<>>
    /\ now = FirstYear
    /\ resp = NoResp
    /\ pc = [w \in 1..NumWorkers |-> "idle"]
    /\ pend = [w \in 1..NumWorkers |-> NoResp]
    /\ storeUnique = FALSE
    /\ raced = {}

NextTitle ==
    \/ TitleCreate
    \/ NewYear

SpecTitle == InitTitle /\ [][NextTitle]_vars

\* The Title listing is checked over every catalogue of the bounded size.
InitFilter ==
    /\ users = <<>>
    /\ categories = SeedCategories
    /\ genres = SeedGenres
    /\ titles \in Catalogues
    /\ reviews = <<>>
    /\ now = FirstYear
    /\ resp = NoResp
    /\ pc = [w \in 1..NumWorkers |-> "idle"]
    /\ pend = [w \in 1..NumWorkers |-> NoResp]
    /\ storeUnique = FALSE
    /\ raced = {}

\* The Review requests start from a store that holds Titles.
InitReview ==
    /\ users = <<>>
    /\ categories = SeedCategories
    /\ genres = SeedGenres
    /\ titles = SeedTitles
    /\ reviews = <<>>
    /\ now = FirstYear
    /\ resp = NoResp
    /\ pc = [w \in 1..NumWorkers |-> "idle"]
    /\ pend = [w \in 1..NumWorkers |-> NoResp]
    /\ storeUnique = FALSE
    /\ raced = {}

Next ==
    \/ ReviewCreate
    \/ ReviewUpdate

Spec == InitReview /\ [][Next]_vars

\* The table's own uniqueness constraint is either there or not.
InitRace ==
    /\ users = <<>>
    /\ categories = SeedCategories
    /\ genres = SeedGenres
    /\ titles = SeedTitles
    /\ reviews = <<>>
    /\ now = FirstYear
    /\ resp = NoResp
    /\ pc = [w \in 1..NumWorkers |-> "idle"]
    /\ pend = [w \in 1..NumWorkers |-> NoResp]
    /\ storeUnique \in BOOLEAN
    /\ raced = {}

NextRace ==
    \E w \in 1..NumWorkers :
        \/ RaceValidate(w)
        \/ RaceInsert(w)

SpecRace == InitRace /\ [][NextRace]_vars

NextFilter == TitleList

SpecFilter == InitFilter /\ [][NextFilter]_vars

====
